---- MODULE Spec2Model ----
(***************************************************************************)
(* One request at a time through the application of main.py: the           *)
(* middleware stack, parameter binding, the route handler, response model  *)
(* resolution, exception handlers, the transport send and the background   *)
(* tasks.  Declarations (parameters, models, handlers, middleware          *)
(* registrations) are transcribed from main.py; the steps that main.py     *)
(* delegates to FastAPI/Starlette (binding, union resolution, middleware   *)
(* nesting, the background task loop, the server-error handler) follow the *)
(* behaviour of those libraries for the calls main.py makes.               *)
(*                                                                         *)
(* Floats are counted in tenths (10.5 is 105).  A raw request value is a   *)
(* string, Absent when the client did not supply it; a repeated query key  *)
(* (q of GET /items/{item_id}) is the number of times the key occurs.      *)
(***************************************************************************)
EXTENDS Integers, Sequences, FiniteSets, TLC

VARIABLES req, pc, depth, wrapped, errors, raised, result, resp, delivered,
          sentCount, tasks, taskPos, ran, log, taskFailed, events,
          handlerCalls, resolveCalls, mapperCalls, variant, prevUser

vars == <<req, pc, depth, wrapped, errors, raised, result, resp, delivered,
          sentCount, tasks, taskPos, ran, log, taskFailed, events,
          handlerCalls, resolveCalls, mapperCalls, variant, prevUser>>

\* ------------------------------------------------------------------ bounds

\* The largest number of q= keys a modelled query string carries.
MaxQCount == 21

\* ------------------------------------------------------------ raw values

Absent == "<absent>"
Null == "null"

\* A value that is not a JSON object is held in a record: a string under
\* text, an array under array; Nothing is no value at all.
Text(str) == [text |-> str]
Array(seq) == [array |-> seq]
Nothing == [none |-> TRUE]

\* int(raw): the raw strings the model draws, and the integer each parses to.
IsInt(raw) == raw \in {"-1", "0", "3", "5", "10000000"}

IntOf(raw) ==
    CASE raw = "-1" -> -1
      [] raw = "0" -> 0
      [] raw = "3" -> 3
      [] raw = "5" -> 5
      [] raw = "10000000" -> 10000000

\* float(raw), in tenths.
IsFloat(raw) == raw \in {"-1", "0", "0.5", "1.5", "3", "5", "10.5", "35.4"}

TenthsOf(raw) ==
    CASE raw = "-1" -> -10
      [] raw = "0" -> 0
      [] raw = "0.5" -> 5
      [] raw = "1.5" -> 15
      [] raw = "3" -> 30
      [] raw = "5" -> 50
      [] raw = "10.5" -> 105
      [] raw = "35.4" -> 354

\* --------------------------------------------------------------- schemas
\* A schema maps each field name to whether it has a default, and the default.

Dflt(v) == [has_default |-> TRUE, default |-> v]
Reqd == [has_default |-> FALSE, default |-> Null]

BaseItem == [description |-> Dflt(Null), type |-> Dflt(Null)]

CarItem == [type |-> Dflt("car")] @@ BaseItem

PlaneItem == [type |-> Dflt("plane"), size |-> Reqd] @@ BaseItem

Item == [name |-> Reqd, price |-> Reqd, tax |-> Dflt(Null), tags |-> Dflt(Null),
         images |-> Dflt(Null)] @@ BaseItem

Offer == [name |-> Reqd, description |-> Dflt(Null), price |-> Reqd, items |-> Reqd]

BaseUser == [username |-> Reqd, full_name |-> Dflt(Null)]

UserIn == [password |-> Reqd] @@ BaseUser

\* ------------------------------------------------------------ parameters
\* A declared parameter: where it is read, its type, whether its annotation
\* admits None, whether a default is declared, and its constraints in the
\* order they are declared.

F_item_id ==
    [name |-> "item_id", in |-> "path", type |-> "int", nullable |-> FALSE,
     has_default |-> FALSE, constraints |-> <<<<"ge", 0>>, <<"lt", 10000000>>>>]

F_q ==
    [name |-> "q", in |-> "query", type |-> "list", nullable |-> TRUE,
     has_default |-> FALSE,
     constraints |-> <<<<"min_length", 3>>, <<"max_length", 20>>>>]

F_size ==
    [name |-> "size", in |-> "query", type |-> "float", nullable |-> FALSE,
     has_default |-> FALSE, constraints |-> <<<<"gt", 0>>, <<"lt", 105>>>>]

F_importance ==
    [name |-> "importance", in |-> "body", type |-> "int", nullable |-> FALSE,
     has_default |-> FALSE, constraints |-> <<<<"ge", 0>>>>]

\* PUT /items/{item_id}: item_id: int, item: Annotated[Item, Body(embed=True)]
F_put_item_id ==
    [name |-> "item_id", in |-> "path", type |-> "int", nullable |-> FALSE,
     has_default |-> FALSE, constraints |-> <<>>]

F_item ==
    [name |-> "item", in |-> "body", type |-> "model", nullable |-> FALSE,
     has_default |-> FALSE, constraints |-> <<>>]

F_item_name ==
    [name |-> "name", in |-> "body", type |-> "str", nullable |-> FALSE,
     has_default |-> FALSE, constraints |-> <<>>]

F_item_price ==
    [name |-> "price", in |-> "body", type |-> "float", nullable |-> FALSE,
     has_default |-> FALSE, constraints |-> <<<<"gt", 0>>>>]

F_item_tax ==
    [name |-> "tax", in |-> "body", type |-> "float", nullable |-> TRUE,
     has_default |-> TRUE, constraints |-> <<>>]

\* POST /user/: user: UserIn
F_username ==
    [name |-> "username", in |-> "body", type |-> "str", nullable |-> FALSE,
     has_default |-> FALSE, constraints |-> <<>>]

F_full_name ==
    [name |-> "full_name", in |-> "body", type |-> "str", nullable |-> TRUE,
     has_default |-> TRUE, constraints |-> <<>>]

F_password ==
    [name |-> "password", in |-> "body", type |-> "str", nullable |-> FALSE,
     has_default |-> FALSE, constraints |-> <<>>]

\* ------------------------------------------------- coercion and validation

Err(loc, type) == [loc |-> loc, type |-> type]

\* A parameter is required exactly when no default is declared for it; that
\* its annotation admits None does not make it optional.
RequiredUnlessNullable(f) == ~f.has_default /\ ~f.nullable

Required(f) == ~f.has_default

IsAbsent(f, raw) == IF f.type = "list" THEN raw = 0 ELSE raw = Absent

Coercible(f, raw) ==
    CASE f.type = "int" -> IsInt(raw)
      [] f.type = "float" -> IsFloat(raw)
      [] OTHER -> TRUE

\* The typed value; a list is measured by its length.
Coerced(f, raw) ==
    CASE f.type = "int" -> IntOf(raw)
      [] f.type = "float" -> TenthsOf(raw)
      [] OTHER -> raw

Satisfies(c, v) ==
    CASE c[1] = "gt" -> v > c[2]
      [] c[1] = "ge" -> v >= c[2]
      [] c[1] = "lt" -> v < c[2]
      [] c[1] = "le" -> v <= c[2]
      [] c[1] = "min_length" -> v >= c[2]
      [] c[1] = "max_length" -> v <= c[2]

\* The violated constraints of a coerced value, in declaration order.
Violations(f, v, loc) ==
    LET bad == SelectSeq(f.constraints, LAMBDA c : ~Satisfies(c, v))
    IN  [i \in 1..Len(bad) |-> Err(loc, bad[i][1])]

\* One parameter: missing, then coercion, then the constraints.
ValidateField(f, raw, loc) ==
    IF IsAbsent(f, raw)
    THEN IF Required(f) THEN <<Err(loc, "missing")>> ELSE <<>>
    ELSE IF ~Coercible(f, raw)
         THEN <<Err(loc, "type_error")>>
         ELSE Violations(f, Coerced(f, raw), loc)

\* The value the handler receives for a valid parameter.
ValueOf(f, raw) == IF IsAbsent(f, raw) THEN Null ELSE Coerced(f, raw)

\* Where a parameter's errors are reported: a path or query parameter under
\* its name; the only body parameter of a route, when it is not embedded,
\* at the body itself.
ParamLoc(f, sole_unembedded_body) ==
    IF f.in = "body" /\ sole_unembedded_body THEN <<"body">> ELSE <<f.in, f.name>>

\* The errors of all parameters of one request, each parameter's after the
\* previous one's.
RECURSIVE CollectFirstOnly(_)
CollectFirstOnly(errlists) ==
    IF errlists = <<>> THEN <<>>
    ELSE IF Head(errlists) # <<>> THEN Head(errlists)
         ELSE CollectFirstOnly(Tail(errlists))

RECURSIVE Collect(_)
Collect(errlists) ==
    IF errlists = <<>> THEN <<>> ELSE Head(errlists) \o Collect(Tail(errlists))

\* GET /items/{item_id}
read_item_errors(a) ==
    Collect(<<ValidateField(F_item_id, a.item_id, ParamLoc(F_item_id, TRUE)),
              ValidateField(F_q, a.q, ParamLoc(F_q, TRUE)),
              ValidateField(F_size, a.size, ParamLoc(F_size, TRUE)),
              ValidateField(F_importance, a.importance, ParamLoc(F_importance, TRUE))>>)

\* PUT /items/{item_id}: the body is {"item": {...}} (embed=True).
update_item_errors(a) ==
    Collect(<<ValidateField(F_put_item_id, a.item_id, ParamLoc(F_put_item_id, FALSE)),
              IF ~a.item.present
              THEN IF Required(F_item) THEN <<Err(ParamLoc(F_item, FALSE), "missing")>>
                                       ELSE <<>>
              ELSE Collect(<<ValidateField(F_item_name, a.item.name, <<"body", "item", "name">>),
                             ValidateField(F_item_price, a.item.price, <<"body", "item", "price">>),
                             ValidateField(F_item_tax, a.item.tax, <<"body", "item", "tax">>)>>)>>)

\* POST /user/: the body is the UserIn object itself.
create_user_errors(a) ==
    Collect(<<ValidateField(F_username, a.username, <<"body", "username">>),
              ValidateField(F_full_name, a.full_name, <<"body", "full_name">>),
              ValidateField(F_password, a.password, <<"body", "password">>)>>)

\* Body bytes that do not decode as JSON: the one error raised for them.
JsonInvalid == Err(<<"body", "0">>, "json_invalid")

\* The body of a route that declares one is decoded before any parameter
\* is looked at; when that fails, the decode error is the only error.
BindErrors(r) ==
    IF r.malformed
    THEN <<JsonInvalid>>
    ELSE CASE r.route = "read_item" -> read_item_errors(r.args)
           [] r.route = "update_item" -> update_item_errors(r.args)
           [] r.route = "create_user" -> create_user_errors(r.args)
           [] OTHER -> <<>>

\* ------------------------------------------------------------- handlers
\* What a handler does: it returns a value, or raises.

NoExc == [kind |-> "none", status_code |-> 0, detail |-> Null, headers |-> {}, name |-> Null]

NoResult == [kind |-> "none", v |-> Nothing]

Return(kind, v) == [raise |-> FALSE, exc |-> NoExc, result |-> [kind |-> kind, v |-> v]]

Raise(e) == [raise |-> TRUE, exc |-> e, result |-> NoResult]

UnicornException(name) == [NoExc EXCEPT !.kind = "UnicornException", !.name = name]

HTTPException(status_code, detail, headers) ==
    [NoExc EXCEPT !.kind = "HTTPException", !.status_code = status_code,
                  !.detail = detail, !.headers = headers]

KeyError == [NoExc EXCEPT !.kind = "KeyError"]

\* Item(name=..., price=...): the declared fields, defaults filled in.
NewItem(name, price) ==
    [n \in DOMAIN Item |->
        CASE n = "name" -> name [] n = "price" -> price [] OTHER -> Item[n].default]

\* GET /items/{item_id}
read_item ==
    Return("list", Array(<<NewItem("Portal Gun", 420), NewItem("Plumbus", 320)>>))

\* PUT /items/{item_id}
update_item(a) ==
    Return("obj", [item_id |-> ValueOf(F_put_item_id, a.item_id),
                   item |-> [name |-> ValueOf(F_item_name, a.item.name),
                             price |-> ValueOf(F_item_price, a.item.price),
                             tax |-> ValueOf(F_item_tax, a.item.tax)]])

\* GET /travel_items/{item_id}
travel_items ==
    [item1 |-> [description |-> "All my friends drive a low rider", type |-> "car"],
     item2 |-> [description |-> "Music is my aeroplane, it's my aeroplane",
                type |-> "plane", size |-> 5]]

read_travel_item(item_id) ==
    IF item_id \in DOMAIN travel_items
    THEN Return("obj", travel_items[item_id])
    ELSE Raise(KeyError)

\* POST /user/: the UserIn instance built from the body is returned as is.
create_user(a) ==
    Return("obj", [username |-> ValueOf(F_username, a.username),
                   full_name |-> ValueOf(F_full_name, a.full_name),
                   password |-> ValueOf(F_password, a.password)])

\* GET /offers/{offer_id}
offers_without_foo == [baz |-> "The Baz Wrestlers"]

offers == [foo |-> "The Foo Wrestlers"]

read_offer(offer_id) ==
    IF offer_id \notin DOMAIN offers
    THEN Raise(HTTPException(404, "Offer not found",
                             {<<"x-error", "There goes my error">>}))
    ELSE Return("str", Text(offers[offer_id]))

\* GET /unicorns/{name}
read_unicorn_never_raises(name) == Return("obj", [unicorn_name |-> name])

read_unicorn(name) ==
    IF name = "yolo"
    THEN Raise(UnicornException(name))
    ELSE Return("obj", [unicorn_name |-> name])

\* The dependency of POST /send-notification/{email}: a task when q is truthy.
get_query_when_present(background_tasks, q) ==
    IF q # Absent THEN Append(background_tasks, <<"found query", q>>)
                  ELSE background_tasks

get_query(background_tasks, q) ==
    IF q # Absent /\ q # "" THEN Append(background_tasks, <<"found query", q>>)
                            ELSE background_tasks

\* POST /send-notification/{email}: the handler's own task goes last.
send_notification_task_first(background_tasks, email) ==
    <<<<"message to", email>>>> \o background_tasks

send_notification_add_task(background_tasks, email) ==
    Append(background_tasks, <<"message to", email>>)

send_notification == Return("obj", [message |-> "Message sent"])

Invoke(r) ==
    CASE r.route = "read_item" -> read_item
      [] r.route = "update_item" -> update_item(r.args)
      [] r.route = "read_travel_item" -> read_travel_item(r.args.item_id)
      [] r.route = "create_user" -> create_user(r.args)
      [] r.route = "read_offer" -> read_offer(r.args.offer_id)
      [] r.route = "read_unicorn" -> read_unicorn(r.args.name)
      [] r.route = "send_notification" -> send_notification

\* ---------------------------------------------------- response resolution

SchemaOf(name) ==
    CASE name = "CarItem" -> CarItem
      [] name = "PlaneItem" -> PlaneItem
      [] name = "Item" -> Item
      [] name = "Offer" -> Offer
      [] name = "BaseUser" -> BaseUser
      [] name = "UserIn" -> UserIn

\* The declared response type of each route: the variants in declared order
\* (one variant for a plain model), or none.
create_user_returns_UserIn == [kind |-> "model", variants |-> <<"UserIn">>]

create_user_response == [kind |-> "model", variants |-> <<"BaseUser">>]

travel_response_car_first == [kind |-> "model", variants |-> <<"CarItem", "PlaneItem">>]

travel_response == [kind |-> "model", variants |-> <<"PlaneItem", "CarItem">>]

ResponseSpec(route) ==
    CASE route = "read_item" -> [kind |-> "list", variants |-> <<"Item">>]
      [] route = "read_travel_item" -> travel_response
      [] route = "create_user" -> create_user_response
      [] route = "read_offer" -> [kind |-> "model", variants |-> <<"Offer">>]
      [] OTHER -> [kind |-> "none", variants |-> <<>>]

\* A mapping fits a schema when every field without a default is present.
Validates(schema, data) ==
    \A n \in DOMAIN schema : ~schema[n].has_default => n \in DOMAIN data

\* The schema's fields only: extra fields are dropped, defaults filled in.
Project(schema, data) ==
    [n \in DOMAIN schema |-> IF n \in DOMAIN data THEN data[n] ELSE schema[n].default]

\* The first declared variant the data fits, "" when there is none.
RECURSIVE Select(_, _)
Select(variants, data) ==
    IF variants = <<>> THEN ""
    ELSE IF Validates(SchemaOf(Head(variants)), data) THEN Head(variants)
         ELSE Select(Tail(variants), data)

\* resolve(responseSpec, handlerResult): ok, the variant used, the body.
Resolve(spec, res) ==
    CASE spec.kind = "none" -> [ok |-> TRUE, variant |-> "", body |-> res.v]
      [] spec.kind = "model" ->
            IF res.kind = "obj" /\ Select(spec.variants, res.v) # ""
            THEN [ok |-> TRUE, variant |-> Select(spec.variants, res.v),
                  body |-> Project(SchemaOf(Select(spec.variants, res.v)), res.v)]
            ELSE [ok |-> FALSE, variant |-> "", body |-> Nothing]
      [] spec.kind = "list" ->
            IF res.kind = "list"
               /\ \A i \in 1..Len(res.v.array) :
                     Validates(SchemaOf(spec.variants[1]), res.v.array[i])
            THEN [ok |-> TRUE, variant |-> spec.variants[1],
                  body |-> Array([i \in 1..Len(res.v.array) |->
                                     Project(SchemaOf(spec.variants[1]), res.v.array[i])])]
            ELSE [ok |-> FALSE, variant |-> "", body |-> Nothing]

\* ---------------------------------------------------- exception handlers

Response(status, body, headers) == [status |-> status, body |-> body, headers |-> headers]

NoResponse == Response(0, Nothing, {})

unicorn_exception_handler(exc) ==
    Response(418, [message |-> <<"Oops! ", exc.name, " did something. There goes a rainbow...">>], {})

http_exception_handler(exc) == Response(exc.status_code, [detail |-> exc.detail], exc.headers)

request_validation_exception_handler(errs) == Response(422, [detail |-> errs], {})

\* The kinds with a registered handler: the two FastAPI registers itself,
\* and the one main.py registers.
exception_handlers == {"HTTPException", "RequestValidationError", "UnicornException"}

RequestValidationError == [NoExc EXCEPT !.kind = "RequestValidationError"]

ResponseValidationError == [NoExc EXCEPT !.kind = "ResponseValidationError"]

\* ------------------------------------------------------------ middleware

\* The middleware registrations of main.py, in the order they execute at
\* import: @app.middleware("http") first, app.add_middleware(CORSMiddleware)
\* second.
registrations_cors_first == <<"CORSMiddleware", "add_process_time_header">>

registrations == <<"add_process_time_header", "CORSMiddleware">>

\* Each registration is inserted in front of the earlier ones: the stack,
\* outermost first, is the registrations reversed.
user_middleware == [i \in 1..Len(registrations) |-> registrations[Len(registrations) + 1 - i]]

origins ==
    {"http://localhost.tiangolo.com", "https://localhost.tiangolo.com",
     "http://localhost", "http://localhost:8080"}

\* CORSMiddleware on the response start, for a request that carries an
\* Origin header: allow_credentials always, the origin when it is listed.
cors_headers(origin) ==
    {<<"access-control-allow-credentials", "true">>}
        \cup (IF origin \in origins
              THEN {<<"access-control-allow-origin", origin>>, <<"vary", "Origin">>}
              ELSE {})

\* add_process_time_header after call_next returned.
process_time_headers == {<<"x-process-time", "process_time">>}

\* ------------------------------------------------------- background tasks

write_log(lines, message) == Append(lines, message)

\* -------------------------------------------------------------- requests

Origins == {Absent, "http://localhost", "http://evil.example"}

ReadItemArgs ==
    [item_id : {"-1", "5", "10000000", "abc"},
     q : 0..MaxQCount,
     size : {Absent, "0", "0.5", "10.5", "x"},
     importance : {Absent, "-1", "3"}]

NoItem == [present |-> FALSE, name |-> Absent, price |-> Absent, tax |-> Absent]

UpdateItemArgs ==
    [item_id : {"5", "abc"},
     item : {NoItem} \cup [present : {TRUE}, name : {Absent, "Foo"},
                           price : {Absent, "0", "35.4"}, tax : {Absent, "1.5"}]]

CreateUserArgs ==
    [username : {Absent, "u1", "u2"}, full_name : {Absent, "Full Name"},
     password : {Absent, "p1", "p2"}]

NotifyArgs == [email : {"a@example.com"}, q : {Absent, "", "hi"}]

\* A request: the route it matches, its Origin header, its raw values, and
\* whether its body bytes fail to decode as JSON (then the body holds no
\* values; only a route with a body parameter reads the body).
Requests ==
    [route : {"read_item"}, origin : Origins, args : ReadItemArgs, malformed : {FALSE}]
    \cup [route : {"read_item"}, origin : Origins, malformed : {TRUE},
          args : {a \in ReadItemArgs : a.importance = Absent}]
    \cup [route : {"update_item"}, origin : Origins, args : UpdateItemArgs,
          malformed : {FALSE}]
    \cup [route : {"update_item"}, origin : Origins, malformed : {TRUE},
          args : {a \in UpdateItemArgs : a.item = NoItem}]
    \cup [route : {"create_user"}, origin : Origins, args : CreateUserArgs,
          malformed : {FALSE}]
    \cup [route : {"create_user"}, origin : Origins, malformed : {TRUE},
          args : {a \in CreateUserArgs :
                     a.username = Absent /\ a.full_name = Absent /\ a.password = Absent}]
    \cup [route : {"send_notification"}, origin : Origins, args : NotifyArgs,
          malformed : {FALSE}]
    \cup [route : {"read_travel_item"}, origin : Origins, malformed : {FALSE},
          args : [item_id : {"item1", "item2", "item3"}]]
    \cup [route : {"read_offer"}, origin : Origins, malformed : {FALSE},
          args : [offer_id : {"foo", "bar"}]]
    \cup [route : {"read_unicorn"}, origin : Origins, malformed : {FALSE},
          args : [name : {"yolo", "bob"}]]

NoRequest ==
    [route |-> "none", origin |-> Absent, args |-> [none |-> Absent], malformed |-> FALSE]

\* The previous exchange when it was a POST /user/, kept while the current
\* request is one too.
NoPrev ==
    [set |-> FALSE, status |-> 0, body |-> Nothing,
     args |-> [username |-> Absent, full_name |-> Absent, password |-> Absent]]

\* ------------------------------------------------------------ the pipeline

Init ==
    /\ req = NoRequest
    /\ pc = "idle"
    /\ depth = 0
    /\ wrapped = FALSE
    /\ errors = <<>>
    /\ raised = NoExc
    /\ result = NoResult
    /\ resp = NoResponse
    /\ delivered = NoResponse
    /\ sentCount = 0
    /\ tasks = <<>>
    /\ taskPos = 0
    /\ ran = <<>>
    /\ log = <<>>
    /\ taskFailed = FALSE
    /\ events = <<>>
    /\ handlerCalls = 0
    /\ resolveCalls = 0
    /\ mapperCalls = 0
    /\ variant = ""
    /\ prevUser = NoPrev

\* The transport hands over a request.
Arrive(r) ==
    /\ pc = "idle"
    /\ req' = r
    /\ pc' = "pre"
    /\ prevUser' = IF r.route = "create_user" THEN prevUser ELSE NoPrev
    /\ UNCHANGED <<depth, wrapped, errors, raised, result, resp, delivered, sentCount,
                   tasks, taskPos, ran, log, taskFailed, events, handlerCalls,
                   resolveCalls, mapperCalls, variant>>

\* The next middleware inwards takes the request.  CORSMiddleware wraps the
\* send channel when the request has an Origin header and otherwise only
\* passes the request on; add_process_time_header takes start_time.
MiddlewarePre ==
    /\ pc = "pre"
    /\ LET m == user_middleware[depth + 1]
       IN  /\ wrapped' = IF m = "CORSMiddleware" THEN req.origin # Absent ELSE wrapped
           /\ events' = Append(events, <<"pre", m>>)
    /\ depth' = depth + 1
    /\ pc' = IF depth + 1 = Len(user_middleware) THEN "bind" ELSE "pre"
    /\ UNCHANGED <<req, errors, raised, result, resp, delivered, sentCount, tasks,
                   taskPos, ran, log, taskFailed, handlerCalls, resolveCalls,
                   mapperCalls, variant, prevUser>>

\* Every parameter of the route is validated and the dependencies run; any
\* error raises RequestValidationError with all of them.
Bind ==
    /\ pc = "bind"
    /\ LET errs == BindErrors(req)
       IN  /\ errors' = errs
           /\ tasks' = IF req.route = "send_notification" /\ errs = <<>>
                       THEN get_query(tasks, req.args.q)
                       ELSE tasks
           /\ raised' = IF errs # <<>> THEN RequestValidationError ELSE raised
           /\ pc' = IF errs # <<>> THEN "raised" ELSE "handler"
    /\ events' = Append(events, <<"bind", req.route>>)
    /\ UNCHANGED <<req, depth, wrapped, result, resp, delivered, sentCount, taskPos,
                   ran, log, taskFailed, handlerCalls, resolveCalls, mapperCalls,
                   variant, prevUser>>

\* The route's function runs on the bound values.
Handler ==
    /\ pc = "handler"
    /\ handlerCalls' = handlerCalls + 1
    /\ tasks' = IF req.route = "send_notification"
                THEN send_notification_add_task(tasks, req.args.email)
                ELSE tasks
    /\ LET o == Invoke(req)
       IN  /\ raised' = IF o.raise THEN o.exc ELSE raised
           /\ result' = IF o.raise THEN result ELSE o.result
           /\ pc' = IF o.raise THEN "raised" ELSE "resolve"
    /\ events' = Append(events, <<"handler", req.route>>)
    /\ UNCHANGED <<req, depth, wrapped, errors, resp, delivered, sentCount, taskPos,
                   ran, log, taskFailed, resolveCalls, mapperCalls, variant, prevUser>>

\* The returned value is put through the route's response type.
ResolveResponse ==
    /\ pc = "resolve"
    /\ resolveCalls' = resolveCalls + 1
    /\ LET r == Resolve(ResponseSpec(req.route), result)
       IN  /\ resp' = IF r.ok THEN Response(200, r.body, {}) ELSE resp
           /\ variant' = r.variant
           /\ raised' = IF r.ok THEN raised ELSE ResponseValidationError
           /\ pc' = IF r.ok THEN "post" ELSE "raised"
    /\ events' = Append(events, <<"resolve", req.route>>)
    /\ UNCHANGED <<req, depth, wrapped, errors, result, delivered, sentCount, tasks,
                   taskPos, ran, log, taskFailed, handlerCalls, mapperCalls, prevUser>>

\* An exception of a registered kind becomes its handler's response; any
\* other kind propagates outwards through the middleware.
ExceptionMapper ==
    /\ pc = "raised"
    /\ IF raised.kind \in exception_handlers
       THEN /\ mapperCalls' = mapperCalls + 1
            /\ resp' = CASE raised.kind = "UnicornException" ->
                                unicorn_exception_handler(raised)
                         [] raised.kind = "HTTPException" ->
                                http_exception_handler(raised)
                         [] raised.kind = "RequestValidationError" ->
                                request_validation_exception_handler(errors)
            /\ pc' = "post"
       ELSE /\ pc' = "server_error"
            /\ UNCHANGED <<mapperCalls, resp>>
    /\ events' = Append(events, <<"exception", raised.kind>>)
    /\ UNCHANGED <<req, depth, wrapped, errors, raised, result, delivered, sentCount,
                   tasks, taskPos, ran, log, taskFailed, handlerCalls, resolveCalls,
                   variant, prevUser>>

\* The response passes outwards through the innermost middleware not yet
\* left: add_process_time_header sets X-Process-Time, CORSMiddleware's
\* wrapped send adds its headers.
MiddlewarePost ==
    /\ pc = "post"
    /\ LET m == user_middleware[depth]
       IN  /\ resp' = CASE m = "add_process_time_header" ->
                              [resp EXCEPT !.headers = @ \cup process_time_headers]
                        [] m = "CORSMiddleware" /\ wrapped ->
                              [resp EXCEPT !.headers = @ \cup cors_headers(req.origin)]
                        [] OTHER -> resp
           /\ events' = IF m = "CORSMiddleware" /\ ~wrapped
                        THEN events
                        ELSE Append(events, <<"post", m>>)
    /\ depth' = depth - 1
    /\ pc' = IF depth = 1 THEN "send" ELSE "post"
    /\ UNCHANGED <<req, wrapped, errors, raised, result, delivered, sentCount, tasks,
                   taskPos, ran, log, taskFailed, handlerCalls, resolveCalls,
                   mapperCalls, variant, prevUser>>

\* An exception no handler took leaves every middleware without their
\* post-processing; the server-error handler outside them answers 500.
ServerError ==
    /\ pc = "server_error"
    /\ resp' = Response(500, Text("Internal Server Error"), {})
    /\ depth' = 0
    /\ pc' = "send"
    /\ events' = Append(events, <<"server_error", raised.kind>>)
    /\ UNCHANGED <<req, wrapped, errors, raised, result, delivered, sentCount, tasks,
                   taskPos, ran, log, taskFailed, handlerCalls, resolveCalls,
                   mapperCalls, variant, prevUser>>

\* The response is handed to the transport.
Send ==
    /\ pc = "send"
    /\ delivered' = resp
    /\ sentCount' = sentCount + 1
    /\ pc' = "background"
    /\ events' = Append(events, <<"sent", req.route>>)
    /\ UNCHANGED <<req, depth, wrapped, errors, raised, result, resp, tasks, taskPos,
                   ran, log, taskFailed, handlerCalls, resolveCalls, mapperCalls,
                   variant, prevUser>>

\* The next queued task runs: write_log opens log.txt, which may fail, and
\* appends the message.  A task that raises ends the loop over the tasks.
RunTask ==
    /\ pc = "background"
    /\ taskPos < Len(tasks)
    /\ ran' = Append(ran, tasks[taskPos + 1])
    /\ events' = Append(events, <<"task", tasks[taskPos + 1][1]>>)
    /\ \E opened \in BOOLEAN :
          IF opened
          THEN /\ log' = write_log(log, tasks[taskPos + 1])
               /\ taskPos' = taskPos + 1
               /\ UNCHANGED <<taskFailed, pc>>
          ELSE /\ taskFailed' = TRUE
               /\ pc' = "done"
               /\ UNCHANGED <<log, taskPos>>
    /\ UNCHANGED <<req, depth, wrapped, errors, raised, result, resp, delivered,
                   sentCount, tasks, handlerCalls, resolveCalls, mapperCalls, variant,
                   prevUser>>

\* No task is left.
Finish ==
    /\ pc = "background"
    /\ taskPos = Len(tasks)
    /\ pc' = "done"
    /\ UNCHANGED <<req, depth, wrapped, errors, raised, result, resp, delivered,
                   sentCount, tasks, taskPos, ran, log, taskFailed, events,
                   handlerCalls, resolveCalls, mapperCalls, variant, prevUser>>

\* Everything scoped to the request is discarded.
Close ==
    /\ pc = "done"
    /\ req' = NoRequest
    /\ pc' = "idle"
    /\ depth' = 0
    /\ wrapped' = FALSE
    /\ errors' = <<>>
    /\ raised' = NoExc
    /\ result' = NoResult
    /\ resp' = NoResponse
    /\ delivered' = NoResponse
    /\ sentCount' = 0
    /\ tasks' = <<>>
    /\ taskPos' = 0
    /\ ran' = <<>>
    /\ log' = <<>>
    /\ taskFailed' = FALSE
    /\ events' = <<>>
    /\ handlerCalls' = 0
    /\ resolveCalls' = 0
    /\ mapperCalls' = 0
    /\ variant' = ""
    /\ prevUser' = IF req.route = "create_user"
                   THEN [set |-> TRUE, status |-> delivered.status,
                         body |-> delivered.body, args |-> req.args]
                   ELSE NoPrev

Step ==
    \/ MiddlewarePre
    \/ Bind
    \/ Handler
    \/ ResolveResponse
    \/ ExceptionMapper
    \/ MiddlewarePost
    \/ ServerError
    \/ Send
    \/ RunTask
    \/ Finish
    \/ Close

\* The transport accepts the next request when none is in progress.
Accept == pc = "idle" /\ \E r \in Requests : Arrive(r)

Next == Accept \/ Step

Spec == Init /\ [][Next]_vars

\* A request that has arrived is run to its end by the event loop.
FairSpec == Spec /\ WF_vars(Step)

\* ============================================================== claims

Sent == sentCount = 1

\* The errors the client received in a 422 body.
Detail == IF Sent /\ delivered.status = 422 THEN delivered.body.detail ELSE <<>>

Reported(loc, type) == \E i \in 1..Len(Detail) : Detail[i] = Err(loc, type)

ReportedLocs == {Detail[i].loc : i \in 1..Len(Detail)}

\* The position of the first event (kind, name) of the request, 0 when absent.
EventAt(kind, name) ==
    IF \E i \in 1..Len(events) : events[i] = <<kind, name>>
    THEN CHOOSE i \in 1..Len(events) :
            /\ events[i] = <<kind, name>>
            /\ \A j \in 1..(i - 1) : events[j] # <<kind, name>>
    ELSE 0

\* --------------------------------------------------------------------- C1
\* The parameters a request gets wrong, read off the declarations.
\* GET /items/{item_id}: item_id an int in [0, 1e7), q three to twenty
\* values, size a float in (0, 10.5), importance an int >= 0.
BadItemId(a) ==
    ~IsInt(a.item_id) \/ IntOf(a.item_id) < 0 \/ IntOf(a.item_id) >= 10000000

BadQ(a) == a.q < 3 \/ a.q > 20

BadSize(a) ==
    a.size = Absent \/ ~IsFloat(a.size) \/ TenthsOf(a.size) <= 0 \/ TenthsOf(a.size) >= 105

BadImportance(a) ==
    a.importance = Absent \/ ~IsInt(a.importance) \/ IntOf(a.importance) < 0

\* PUT /items/{item_id}: item_id an int, item an Item with a name and a
\* price above zero.
BadPrice(item) ==
    item.price = Absent \/ ~IsFloat(item.price) \/ TenthsOf(item.price) <= 0

\* The locations of the invalid parameters and fields of a request.
InvalidLocs(r) ==
    CASE r.route = "read_item" ->
            (IF BadItemId(r.args) THEN {<<"path", "item_id">>} ELSE {})
            \cup (IF BadQ(r.args) THEN {<<"query", "q">>} ELSE {})
            \cup (IF BadSize(r.args) THEN {<<"query", "size">>} ELSE {})
            \cup (IF BadImportance(r.args) THEN {<<"body">>} ELSE {})
      [] r.route = "update_item" ->
            (IF ~IsInt(r.args.item_id) THEN {<<"path", "item_id">>} ELSE {})
            \cup (IF ~r.args.item.present
                  THEN {<<"body", "item">>}
                  ELSE (IF r.args.item.name = Absent
                        THEN {<<"body", "item", "name">>} ELSE {})
                       \cup (IF BadPrice(r.args.item)
                             THEN {<<"body", "item", "price">>} ELSE {}))
      [] r.route = "create_user" ->
            (IF r.args.username = Absent THEN {<<"body", "username">>} ELSE {})
            \cup (IF r.args.password = Absent THEN {<<"body", "password">>} ELSE {})
      [] OTHER -> {}

\* An invalid location is covered by an error at it, and a location in the
\* body also by an error about the body as a whole.
Covered(loc) ==
    \E i \in 1..Len(Detail) :
        \/ Detail[i].loc = loc
        \/ Detail[i].type = "json_invalid" /\ loc[1] = "body"

\* C1 as stated: with an invalid parameter the handler is never invoked and
\* the one 422 response reports every invalid parameter of the request.
C1_EveryInvalidFieldListed ==
    InvalidLocs(req) # {} =>
        /\ handlerCalls = 0
        /\ sentCount <= 1
        /\ Sent => (delivered.status = 422 /\ \A loc \in InvalidLocs(req) : Covered(loc))

\* C1: a request with at least one invalid parameter never reaches the
\* handler and gets one 422 response.  When its body decodes as JSON, the
\* response reports every invalid parameter of the request, and only those;
\* when the body does not decode, the response reports the decode error
\* alone.
C1_AllViolationsReported ==
    InvalidLocs(req) # {} =>
        /\ handlerCalls = 0
        /\ pc \notin {"handler", "resolve"}
        /\ sentCount <= 1
        /\ Sent =>
              /\ delivered.status = 422
              /\ ~req.malformed => ReportedLocs = InvalidLocs(req)
              /\ req.malformed => Detail = <<JsonInvalid>>

C1_Witness ==
    /\ req.route = "read_item"
    /\ ~req.malformed
    /\ Sent
    /\ delivered.status = 422
    /\ Cardinality(InvalidLocs(req)) >= 2
    /\ Len(Detail) >= 2

\* -------------------------------------------------------------------- C10
\* The parameters and model fields without a default that a request leaves
\* out, each with the place and the name it is declared under.
MissingRequired ==
    CASE req.route = "read_item" ->
            (IF req.args.q = 0 THEN {[loc |-> <<"query", "q">>, name |-> "q"]} ELSE {})
            \cup (IF req.args.size = Absent
                  THEN {[loc |-> <<"query", "size">>, name |-> "size"]} ELSE {})
            \cup (IF req.args.importance = Absent
                  THEN {[loc |-> <<"body">>, name |-> "importance"]} ELSE {})
      [] req.route = "update_item" ->
            IF ~req.args.item.present
            THEN {[loc |-> <<"body", "item">>, name |-> "item"]}
            ELSE (IF req.args.item.name = Absent
                  THEN {[loc |-> <<"body", "item", "name">>, name |-> "name"]} ELSE {})
                 \cup (IF req.args.item.price = Absent
                       THEN {[loc |-> <<"body", "item", "price">>, name |-> "price"]}
                       ELSE {})
      [] req.route = "create_user" ->
            (IF req.args.username = Absent
             THEN {[loc |-> <<"body", "username">>, name |-> "username"]} ELSE {})
            \cup (IF req.args.password = Absent
                  THEN {[loc |-> <<"body", "password">>, name |-> "password"]} ELSE {})
      [] OTHER -> {}

\* The fields with a default, and whether the request leaves each out.
DefaultedAbsent ==
    CASE req.route = "update_item" ->
            IF req.args.item.present /\ req.args.item.tax = Absent THEN {"tax"} ELSE {}
      [] req.route = "create_user" ->
            IF req.args.full_name = Absent THEN {"full_name"} ELSE {}
      [] OTHER -> {}

\* The value the handler got for a defaulted field.
DefaultedValue(name) ==
    CASE req.route = "update_item" -> result.v.item.tax
      [] req.route = "create_user" -> result.v.full_name

\* C10 as stated: every required parameter or field left out is reported
\* as missing under its own name.
C10_MissingNamesField ==
    Sent =>
        \A m \in MissingRequired :
            \E i \in 1..Len(Detail) :
                /\ Detail[i].type = "missing"
                /\ Detail[i].loc[Len(Detail[i].loc)] = m.name

\* C10: every parameter or model field without a default that the request
\* leaves out, also one whose type admits None (q), is reported as missing
\* in a 422 response when the body decodes as JSON, at its location: under
\* its name for a path, query or model field, and at the bare body for
\* importance, the only body parameter of its route.  A field with a default
\* is never reported as missing and the handler gets the default.
C10_MissingReported ==
    Sent =>
        /\ \A m \in MissingRequired :
              /\ delivered.status = 422
              /\ ~req.malformed => Reported(m.loc, "missing")
        /\ \A i \in 1..Len(Detail) :
              Detail[i].type = "missing" =>
                  Detail[i].loc[Len(Detail[i].loc)] \notin {"tax", "full_name"}
        /\ \A n \in DefaultedAbsent :
              delivered.status = 200 => (handlerCalls = 1 /\ DefaultedValue(n) = Null)

C10_Witness ==
    /\ Sent
    /\ ~req.malformed
    /\ req.route = "read_item"
    /\ req.args.q = 0
    /\ req.args.importance = Absent
    /\ Reported(<<"query", "q">>, "missing")
    /\ Reported(<<"body">>, "missing")

\* --------------------------------------------------------------------- C2
Truthy(q) == q # Absent /\ q # ""

\* The tasks of one POST /send-notification/{email} in the order the claim
\* gives: the dependency's, when q is non-empty, then the handler's.
ExpectedTasks ==
    (IF Truthy(req.args.q) THEN <<<<"found query", req.args.q>>>> ELSE <<>>)
        \o <<<<"message to", req.args.email>>>>

IsPrefix(s, t) == Len(s) <= Len(t) /\ \A i \in 1..Len(s) : s[i] = t[i]

\* C2: no background task of POST /send-notification/{email} starts before
\* the response was handed to the transport, and the tasks start, and write
\* their lines, in enqueue order: 'found query' before 'message to'.
C2_TasksAfterResponseInOrder ==
    req.route = "send_notification" =>
        /\ ran # <<>> => Sent
        /\ \A i \in 1..Len(events) :
              events[i][1] = "task" =>
                  \E j \in 1..(i - 1) : events[j][1] = "sent"
        /\ IsPrefix(ran, ExpectedTasks)
        /\ IsPrefix(log, ran)

C2_Witness ==
    /\ req.route = "send_notification"
    /\ req.args.q = "hi"
    /\ pc = "done"
    /\ ran = <<<<"found query", "hi">>, <<"message to", "a@example.com">>>>
    /\ log = ran

\* --------------------------------------------------------------------- C3
Occurrences(lines, m) == Cardinality({i \in 1..Len(lines) : lines[i] = m})

C4_LaterTasksStillRun ==
    (req.route = "send_notification" /\ pc = "done" /\ taskFailed) =>
        /\ Len(ran) = Len(tasks)
        /\ sentCount = 1
        /\ delivered.status = 200

\* --------------------------------------------------------------------- C5
TimerPost == EventAt("post", "add_process_time_header")

CorsPost == EventAt("post", "CORSMiddleware")

\* Of two middleware, the one entered first is left last.
Nested ==
    \A a, b \in {"CORSMiddleware", "add_process_time_header"} :
        (/\ EventAt("pre", a) > 0
         /\ EventAt("pre", a) < EventAt("pre", b)
         /\ EventAt("post", a) > 0
         /\ EventAt("post", b) > 0) => EventAt("post", b) < EventAt("post", a)

HeaderNames(r) == {h[1] : h \in r.headers}

\* C5 as stated: CORS is outermost, handles every response to a request
\* with an Origin header, and does so before X-Process-Time is injected.
C5_CorsBeforeProcessTime ==
    /\ user_middleware[1] = "CORSMiddleware"
    /\ Nested
    /\ (Sent /\ req.origin # Absent) => CorsPost > 0
    /\ (Sent /\ req.origin # Absent /\ TimerPost > 0) => CorsPost < TimerPost

\* C5: the middleware are strictly nested with CORSMiddleware outermost.
\* A response produced inside the stack (200, 404, 418, 422) gets
\* X-Process-Time first and, when the request carries an Origin header, the
\* CORS headers after that: allow-credentials always, allow-origin for a
\* listed origin only.  Without an Origin header CORSMiddleware adds
\* nothing.  The 500 of the server-error handler is produced outside the
\* stack and gets neither.
C5_CorsOutermostAfterProcessTime ==
    /\ user_middleware[1] = "CORSMiddleware"
    /\ Nested
    /\ (Sent /\ delivered.status # 500) =>
          /\ TimerPost > 0
          /\ "x-process-time" \in HeaderNames(delivered)
          /\ req.origin # Absent =>
                /\ CorsPost > TimerPost
                /\ <<"access-control-allow-credentials", "true">> \in delivered.headers
                /\ (<<"access-control-allow-origin", req.origin>> \in delivered.headers)
                      <=> (req.origin \in origins)
          /\ req.origin = Absent =>
                /\ CorsPost = 0
                /\ HeaderNames(delivered) \cap
                      {"access-control-allow-credentials", "access-control-allow-origin"} = {}
    /\ (Sent /\ delivered.status = 500) =>
          /\ TimerPost = 0
          /\ CorsPost = 0
          /\ delivered.headers = {}

C5_Witness ==
    /\ req.route = "read_offer"
    /\ req.args.offer_id = "bar"
    /\ req.origin = "http://localhost"
    /\ Sent
    /\ delivered.status = 404
    /\ TimerPost > 0
    /\ CorsPost > TimerPost
    /\ <<"access-control-allow-origin", "http://localhost">> \in delivered.headers

\* --------------------------------------------------------------------- C6
\* C6: GET /unicorns/yolo is answered by the registered handler alone, 418
\* with the message naming yolo, and the response type is never applied;
\* any other name gets the handler's own result and no exception handler
\* runs.
C6_UnicornMapped ==
    (req.route = "read_unicorn" /\ Sent) =>
        IF req.args.name = "yolo"
        THEN /\ delivered.status = 418
             /\ delivered.body =
                   [message |-> <<"Oops! ", "yolo", " did something. There goes a rainbow...">>]
             /\ handlerCalls = 1
             /\ resolveCalls = 0
             /\ mapperCalls = 1
        ELSE /\ delivered.status = 200
             /\ delivered.body = [unicorn_name |-> req.args.name]
             /\ handlerCalls = 1
             /\ resolveCalls = 1
             /\ mapperCalls = 0

C6_Witness ==
    /\ req.route = "read_unicorn"
    /\ req.args.name = "yolo"
    /\ Sent
    /\ delivered.status = 418
    /\ mapperCalls = 1

\* --------------------------------------------------------------------- C7
\* C7: on GET /travel_items/{item_id} a result of type car goes out through
\* CarItem, without size; a result of type plane through PlaneItem, with
\* its size.
C7_UnionVariant ==
    (req.route = "read_travel_item" /\ Sent /\ result.kind = "obj") =>
        /\ delivered.status = 200
        /\ delivered.body.type = result.v.type
        /\ delivered.body.description = result.v.description
        /\ result.v.type = "car" =>
              (variant = "CarItem" /\ "size" \notin DOMAIN delivered.body)
        /\ result.v.type = "plane" =>
              /\ variant = "PlaneItem"
              /\ "size" \in DOMAIN delivered.body
              /\ delivered.body.size = 5

C7_Witness ==
    /\ req.route = "read_travel_item"
    /\ req.args.item_id = "item2"
    /\ Sent
    /\ variant = "PlaneItem"
    /\ "size" \in DOMAIN delivered.body

\* --------------------------------------------------------------------- C8
ValidUser(a) == a.username # Absent /\ a.password # Absent

\* C8: a valid POST /user/ is answered with username and full_name only,
\* never the password, and the answer is the same as that of a previous
\* valid request that differs in the password alone.
C8_PasswordNeverReturned ==
    (req.route = "create_user" /\ Sent /\ ValidUser(req.args)) =>
        /\ delivered.status = 200
        /\ DOMAIN delivered.body = {"username", "full_name"}
        /\ delivered.body.username = req.args.username
        /\ delivered.body.full_name =
              (IF req.args.full_name = Absent THEN Null ELSE req.args.full_name)
        /\ (/\ prevUser.set
            /\ ValidUser(prevUser.args)
            /\ prevUser.args.username = req.args.username
            /\ prevUser.args.full_name = req.args.full_name) =>
                  (prevUser.status = 200 /\ prevUser.body = delivered.body)

C8_Witness ==
    /\ req.route = "create_user"
    /\ Sent
    /\ delivered.status = 200
    /\ prevUser.set
    /\ prevUser.status = 200
    /\ prevUser.args.username = req.args.username
    /\ prevUser.args.full_name = req.args.full_name
    /\ prevUser.args.password # req.args.password
    /\ prevUser.body = delivered.body

\* --------------------------------------------------------------------- C9
C9_Outcomes ==
    /\ sentCount <= 1
    /\ pc = "done" => Sent
    /\ (req.route = "read_offer" /\ Sent) =>
          IF req.args.offer_id = "foo"
          THEN delivered.status = 500
          ELSE /\ delivered.status = 404
               /\ <<"x-error", "There goes my error">> \in delivered.headers
    /\ (req.route = "read_travel_item" /\ Sent
            /\ req.args.item_id \notin {"item1", "item2"}) => delivered.status = 500

\* C9: every request that arrived gets a response, and only one.  The string
\* GET /offers/foo returns for the Offer response type, and the key error of
\* GET /travel_items/{item_id} for an unknown id, end in a 500; an offer id
\* that is not a key ends in the 404 that carries X-Error.
C9_AlwaysOneResponse == [](C9_Outcomes) /\ ((pc # "idle") ~> Sent)

C9_Witness ==
    /\ req.route = "read_offer"
    /\ req.args.offer_id = "foo"
    /\ Sent
    /\ delivered.status = 500
    /\ raised.kind = "ResponseValidationError"

====
